---- MODULE Spec2Model ----
(***************************************************************************)
(* Model of the transaction synchronisation pipeline of test_starling:     *)
(*   src/src/client.rs  Transaction and its derived total order,           *)
(*                      StarlingAccount::new / get_account_details,        *)
(*                      StarlingAccount::settled_transactions_between      *)
(*   src/src/cli.rs     do_update (fan-out with join_all, flatten, sort,   *)
(*                      display, persist::update_transactions)             *)
(* The banking provider, the wall clock and the Store (module persist,     *)
(* whose code is not part of the sources at hand) are the environment.     *)
(***************************************************************************)
EXTENDS Integers, Sequences, FiniteSets, TLC

(***************************************************************************)
(* Bounds of the model.                                                    *)
(***************************************************************************)
\* most transactions the provider holds, over all accounts
MaxTx == 2
\* most sessions handed to one do_update call
MaxAccounts == 2
\* largest --days argument tried (the smallest tried is -1)
MaxDays == 1
\* most ticks the wall clock advances in one behaviour
MaxDrift == 1
\* number of API keys resolved by StarlingAccount::new
MaxKeys == 2

\* chrono::Duration::days(1) in ticks of the model's clock
DayTicks == 2

AccountIds == {1, 2}
DaysSet == {-1} \cup (1..MaxDays)
ClockStart == 2 * DayTicks

(***************************************************************************)
(* Strings are sequences of character codes, ordered as Rust orders        *)
(* String: lexicographically, a proper prefix first.                       *)
(***************************************************************************)
CmpInt(a, b) == IF a < b THEN -1 ELSE IF a > b THEN 1 ELSE 0

RECURSIVE CmpStr(_, _)
CmpStr(s, t) ==
    IF s = <<>> THEN (IF t = <<>> THEN 0 ELSE -1)
    ELSE IF t = <<>> THEN 1
    ELSE IF Head(s) # Head(t) THEN CmpInt(Head(s), Head(t))
    ELSE CmpStr(Tail(s), Tail(t))

\* #[derive(Ord)] on an enum orders the variants by declaration
DirectionRank(d) == CASE d = "In" -> 0 [] d = "Out" -> 1
CurrencyRank(c) == CASE c = "GBP" -> 0 [] c = "USD" -> 1 [] c = "EUR" -> 2
StatusRank(s) ==
    CASE s = "Upcoming" -> 0 [] s = "Pending" -> 1
      [] s = "Settled" -> 2 [] s = "AccountCheck" -> 3

\* #[derive(Ord)] on CurrencyValue: pennies, then currency
CmpCurrencyValue(a, b) ==
    IF a.pennies # b.pennies THEN CmpInt(a.pennies, b.pennies)
    ELSE CmpInt(CurrencyRank(a.currency), CurrencyRank(b.currency))

\* a comparison that looks at the timestamp alone
CmpTimeOnly(a, b) == CmpInt(a.time, b.time)

\* #[derive(Ord)] on Transaction: the fields in declaration order
CmpTransaction(a, b) ==
    IF a.time # b.time THEN CmpInt(a.time, b.time)
    ELSE IF a.uid # b.uid THEN CmpStr(a.uid, b.uid)
    ELSE IF a.counterparty_name # b.counterparty_name
         THEN CmpStr(a.counterparty_name, b.counterparty_name)
    ELSE IF a.direction # b.direction
         THEN CmpInt(DirectionRank(a.direction), DirectionRank(b.direction))
    ELSE IF a.sourceAmount # b.sourceAmount
         THEN CmpCurrencyValue(a.sourceAmount, b.sourceAmount)
    ELSE IF a.reference # b.reference THEN CmpStr(a.reference, b.reference)
    ELSE CmpInt(StatusRank(a.status), StatusRank(b.status))

(***************************************************************************)
(* The transactions the provider may hold.                                 *)
(***************************************************************************)
TxTimes == {0, DayTicks, DayTicks + 1}
Uids == {<<1>>, <<1, 2>>}
Settled == <<"Out", "Settled">>

Transaction(t, u, sh) ==
    [time |-> t, uid |-> u, counterparty_name |-> <<3>>, direction |-> sh[1],
     sourceAmount |-> [pennies |-> 100, currency |-> "GBP"],
     reference |-> <<>>, status |-> sh[2]]

\* settled payments at every time and uid tried, and for one of them a
\* record that differs in the direction only and one that is not settled
TxUniverse ==
    {Transaction(t, u, Settled) : t \in TxTimes, u \in Uids}
    \cup {Transaction(DayTicks + 1, <<1>>, <<"In", "Settled">>),
          Transaction(DayTicks + 1, <<1>>, <<"Out", "Pending">>)}

UidsOf(S) == {x.uid : x \in S}
Range(s) == {s[i] : i \in 1..Len(s)}

\* the subsets of S of at most n elements
RECURSIVE SetsUpTo(_, _)
SetsUpTo(S, n) ==
    IF n = 0 THEN {{}}
    ELSE LET P == SetsUpTo(S, n - 1) IN P \cup {p \cup {x} : p \in P, x \in S}

\* an account's feed never holds two items with one feedItemUid
Feeds ==
    {f \in SetsUpTo(TxUniverse, MaxTx) : Cardinality(UidsOf(f)) = Cardinality(f)}

Ledgers ==
    {l \in [AccountIds -> Feeds] :
        Cardinality(l[1]) + Cardinality(l[2]) <= MaxTx}

\* every order in which the items of S can be listed
SeqsOf(S) ==
    {s \in [1..Cardinality(S) -> S] : Range(s) = S}

(***************************************************************************)
(* cli.rs, do_update, line 43: flatten, then itertools' sorted(), which    *)
(* collects into a Vec and calls the stable slice sort.                    *)
(***************************************************************************)
RECURSIVE Flatten(_)
Flatten(ss) == IF ss = <<>> THEN <<>> ELSE Head(ss) \o Flatten(Tail(ss))

\* x is placed behind every element that is not greater than it (stable)
RECURSIVE Insert(_, _)
Insert(s, x) ==
    IF s = <<>> THEN <<x>>
    ELSE IF CmpTransaction(x, Head(s)) < 0 THEN <<x>> \o s
    ELSE <<Head(s)>> \o Insert(Tail(s), x)

RECURSIVE Sorted(_)
Sorted(s) ==
    IF s = <<>> THEN <<>>
    ELSE Insert(Sorted(SubSeq(s, 1, Len(s) - 1)), s[Len(s)])

\* join_all yields the outputs in the order of the futures it was given,
\* whatever the order in which they completed
JoinAll(res, ord) == res

\* the outputs in the order in which the fetches completed, left unsorted
new_transactions_as_completed(res, ord) ==
    Flatten([k \in 1..Len(ord) |-> res[ord[k]]])

\* lines 35-43: the value bound to new_transactions
new_transactions_of(res, ord) == Sorted(Flatten(JoinAll(res, ord)))

(***************************************************************************)
(* persist::update_transactions, the Store's mergeAndPersist: the store    *)
(* keeps one record per transaction identifier, the one it saw first.      *)
(***************************************************************************)
RECURSIVE AppendAll(_, _)
AppendAll(st, txs) ==
    IF txs = <<>> THEN st ELSE AppendAll(Append(st, Head(txs)), Tail(txs))

RECURSIVE update_transactions(_, _)
update_transactions(st, txs) ==
    IF txs = <<>> THEN st
    ELSE IF Head(txs).uid \in UidsOf(Range(st))
         THEN update_transactions(st, Tail(txs))
         ELSE update_transactions(Append(st, Head(txs)), Tail(txs))

(***************************************************************************)
(* The provider's answer to "settled-transactions-between": the settled    *)
(* feed items of the account whose timestamp lies in the queried range.    *)
(***************************************************************************)
FeedFor(items, q) ==
    {x \in items : x.status = "Settled" /\ q.min <= x.time /\ x.time <= q.max}

\* client.rs 169: Utc::now() - since, with since = Duration::days(days)
min_transaction_timestamp_later(t, d) == t + d * DayTicks

min_transaction_timestamp(t, d) == t - d * DayTicks

NoQuery == [min |-> 0, max |-> 0, t1 |-> 0, t2 |-> 0]
FailureKinds == {"transport_error", "http_error", "bad_body"}

VARIABLES
    ledger,            \* provider: account -> its feed items
    now,               \* the wall clock, Utc::now()
    store,             \* the Store's records, as persisted
    cycle,             \* runs of do_update so far: 0, 1, or 2 for two and more
    pc,                \* "idle", "fetching", "done" or "panicked"
    accounts,          \* do_update's accounts: the account of each session
    days,              \* do_update's days
    fut,               \* per session: "created", "sent", "done"
    query,             \* per session: the QueryChangesBetween it sent
    results,           \* per session: the Vec<Transaction> its future returned
    order,             \* the sessions in the order their futures completed
    new_transactions,  \* line 43
    displayed,         \* the transactions printed, lines 46-48
    handed,            \* the argument of persist::update_transactions
    storeWrites,       \* calls of persist::update_transactions in this cycle
    panic,             \* the session and cause of the unwrap that panicked
    prevHanded,        \* history: what the previous run handed to the Store
    lookup,            \* per API key: the provider's answer to "accounts"
    session,           \* per API key: what StarlingAccount::new returned
    stderr             \* lines written by eprintln!

syncVars == <<store, cycle, pc, accounts, days, fut, query, results,
              order, new_transactions, displayed, handed, storeWrites, panic,
              prevHanded>>
resolveVars == <<lookup, session, stderr>>
vars == <<ledger, now, syncVars, resolveVars>>

NoPanic == [account |-> 0, cause |-> "none"]

Init ==
    /\ ledger \in Ledgers
    /\ now = ClockStart
    /\ store = <<>>
    /\ cycle = 0
    /\ pc = "idle"
    /\ accounts = <<>>
    /\ days = 0
    /\ fut = <<>>
    /\ query = <<>>
    /\ results = <<>>
    /\ order = <<>>
    /\ new_transactions = <<>>
    /\ displayed = <<>>
    /\ handed = <<>>
    /\ storeWrites = 0
    /\ panic = NoPanic
    /\ prevHanded = <<>>
    /\ lookup = [k \in 1..MaxKeys |-> [kind |-> "unsent", status |-> 0,
                                        decodable |-> FALSE, accounts |-> <<>>]]
    /\ session = [k \in 1..MaxKeys |-> [tag |-> "unresolved", account_uid |-> 0]]
    /\ stderr = <<>>

Sessions == 1..Len(accounts)
AllSent == \A i \in Sessions : fut[i] \in {"sent", "done"}

\* a reading of the wall clock: the time of the last reading or later
ClockReadings == now..(ClockStart + MaxDrift)

\* cli.rs 33-39: do_update is called; the futures are created, not yet polled
do_update_call(accts, d) ==
    /\ pc = "idle"
    /\ cycle' = IF cycle = 0 THEN 1 ELSE 2
    /\ pc' = "fetching"
    /\ accounts' = accts
    /\ days' = d
    /\ fut' = [i \in 1..Len(accts) |-> "created"]
    /\ query' = [i \in 1..Len(accts) |-> NoQuery]
    /\ results' = [i \in 1..Len(accts) |-> <<>>]
    /\ order' = <<>>
    /\ new_transactions' = <<>>
    /\ displayed' = <<>>
    /\ handed' = <<>>
    /\ storeWrites' = 0
    /\ panic' = NoPanic
    /\ UNCHANGED <<ledger, now, store, prevHanded, resolveVars>>

\* the process ends, after "Done" or by the panic: nothing of the run is
\* left but the Store
Exit ==
    /\ pc \in {"done", "panicked"}
    /\ pc' = "idle"
    /\ accounts' = <<>>
    /\ days' = 0
    /\ fut' = <<>>
    /\ query' = <<>>
    /\ results' = <<>>
    /\ order' = <<>>
    /\ new_transactions' = <<>>
    /\ displayed' = <<>>
    /\ handed' = <<>>
    /\ storeWrites' = 0
    /\ panic' = NoPanic
    /\ prevHanded' = handed
    /\ UNCHANGED <<ledger, now, store, cycle, resolveVars>>

\* client.rs 159-173: the query is built and the request sent.
\* min_transaction_timestamp is Utc::now() - since and
\* max_transaction_timestamp is Utc::now(): two readings of the clock, the
\* second at the time of the first or later.
\* join_all polls its futures in order, so session i builds its query once
\* the sessions before it have sent theirs.
settled_transactions_between_send(i) ==
    /\ pc = "fetching"
    /\ fut[i] = "created"
    /\ \A j \in 1..(i - 1) : fut[j] \in {"sent", "done"}
    /\ \E t1 \in ClockReadings : \E t2 \in t1..(ClockStart + MaxDrift) :
          /\ now' = t2
          /\ query' = [query EXCEPT
                          ![i] = [min |-> min_transaction_timestamp(t1, days),
                                  max |-> t2, t1 |-> t1, t2 |-> t2]]
    /\ fut' = [fut EXCEPT ![i] = "sent"]
    /\ UNCHANGED <<ledger, store, cycle, pc, accounts, days, results,
                   order, new_transactions, displayed, handed, storeWrites,
                   panic, prevHanded, resolveVars>>

\* what the request of session i may come to: the provider's feed for its
\* query in some order, or a transport error, a non-success status (whose
\* body is no feed), or a body that does not decode
ProviderAnswers(i) ==
    {[kind |-> "ok", items |-> s] :
        s \in SeqsOf(FeedFor(ledger[accounts[i]], query[i]))}
    \cup {[kind |-> k, items |-> <<>>] : k \in FailureKinds}

\* client.rs 172-176: the provider has answered (it need not, ever) and the
\* future of session i is polled: .send().await.unwrap() panics on a
\* transport error, .json().await.unwrap() on a body that is no feed;
\* otherwise the future returns feed_items. No future is polled again
\* before join_all has polled each of them once.
settled_transactions_between_await(i) ==
    /\ pc = "fetching"
    /\ AllSent
    /\ fut[i] = "sent"
    /\ \E r \in ProviderAnswers(i) :
          IF r.kind = "ok"
          THEN /\ fut' = [fut EXCEPT ![i] = "done"]
               /\ results' = [results EXCEPT ![i] = r.items]
               /\ order' = Append(order, i)
               /\ UNCHANGED <<pc, panic>>
          ELSE \* the panic unwinds do_update; the other futures are dropped
               /\ pc' = "panicked"
               /\ panic' = [account |-> i, cause |-> r.kind]
               /\ UNCHANGED <<fut, results, order>>
    /\ UNCHANGED <<ledger, now, store, cycle, accounts, days, query,
                   new_transactions, displayed, handed, storeWrites,
                   prevHanded, resolveVars>>

\* cli.rs 41-51: join_all resolves once every future is done; the outputs
\* are flattened and sorted, printed, and handed to the Store
do_update_merge ==
    /\ pc = "fetching"
    /\ \A i \in Sessions : fut[i] = "done"
    /\ new_transactions' = new_transactions_of(results, order)
    /\ displayed' = new_transactions'
    /\ handed' = new_transactions'
    /\ store' = update_transactions(store, new_transactions')
    /\ storeWrites' = storeWrites + 1
    /\ pc' = "done"
    /\ UNCHANGED <<ledger, now, cycle, accounts, days, fut, query,
                   results, order, panic, prevHanded, resolveVars>>

(***************************************************************************)
(* client.rs 135-138 and 180-210: StarlingAccount::new and                 *)
(* get_account_details, one call per API key.                              *)
(***************************************************************************)
OK == 200
FORBIDDEN == 403
OtherStatuses == {401, 500}

AccountBodies == UNION {[1..n -> AccountIds] : n \in 0..2}

\* what the provider may answer to GET /accounts
LookupResponses ==
    {[kind |-> "transport_error", status |-> 0, decodable |-> FALSE,
      accounts |-> <<>>]}
    \cup {[kind |-> "response", status |-> OK, decodable |-> TRUE,
           accounts |-> b] : b \in AccountBodies}
    \cup {[kind |-> "response", status |-> st, decodable |-> FALSE,
           accounts |-> <<>>] : st \in {OK, FORBIDDEN} \cup OtherStatuses}

Unsent == [kind |-> "unsent", status |-> 0, decodable |-> FALSE, accounts |-> <<>>]
Sent == [kind |-> "sent", status |-> 0, decodable |-> FALSE, accounts |-> <<>>]
Unresolved == [tag |-> "unresolved", account_uid |-> 0]

\* client.rs 180-210: the Option<AccountDetail> returned for answer r, and
\* the line written to stderr on the way ("" for none)
get_account_details(r) ==
    IF r.kind = "transport_error"
    THEN [tag |-> "None", account_uid |-> 0, err |-> ""]
    ELSE IF r.status = OK
    THEN IF ~r.decodable
         THEN [tag |-> "panic", account_uid |-> 0,
               err |-> "ERROR: Couldn't serialise AccountDetails"]
         ELSE IF r.accounts = <<>>
         THEN [tag |-> "None", account_uid |-> 0, err |-> ""]
         ELSE [tag |-> "Some", account_uid |-> Head(r.accounts), err |-> ""]
    ELSE IF r.status = FORBIDDEN
    THEN [tag |-> "None", account_uid |-> 0,
          err |-> "ERROR: Need to grab a new token"]
    ELSE [tag |-> "None", account_uid |-> 0,
          err |-> "ERROR: Could not get account details"]

\* client.rs 181-187: the request for the key's accounts is sent
get_account_details_send(k) ==
    /\ lookup[k] = Unsent
    /\ lookup' = [lookup EXCEPT ![k] = Sent]
    /\ UNCHANGED <<ledger, now, syncVars, session, stderr>>

\* the provider answers the lookup, or the transport fails
ProviderAccounts(k) ==
    /\ lookup[k] = Sent
    /\ \E r \in LookupResponses : lookup' = [lookup EXCEPT ![k] = r]
    /\ UNCHANGED <<ledger, now, syncVars, session, stderr>>

\* client.rs 135-138, 188-209: new() returns Some(Self) when
\* get_account_details returned Some(detail), and None when it returned None
StarlingAccount_new(k) ==
    /\ lookup[k].kind \in {"transport_error", "response"}
    /\ session[k] = Unresolved
    /\ LET d == get_account_details(lookup[k]) IN
          /\ session' = [session EXCEPT
                            ![k] = [tag |-> d.tag, account_uid |-> d.account_uid]]
          /\ stderr' = IF d.err = "" THEN stderr ELSE Append(stderr, d.err)
    /\ UNCHANGED <<ledger, now, syncVars, lookup>>

AccountLists == UNION {[1..n -> AccountIds] : n \in 0..MaxAccounts}

\* the program is run for the first time
Start ==
    /\ cycle = 0
    /\ \E accts \in AccountLists, d \in DaysSet : do_update_call(accts, d)

\* the program is run again
Restart ==
    /\ cycle >= 1
    /\ \E accts \in AccountLists, d \in DaysSet : do_update_call(accts, d)

Next ==
    \/ Start
    \/ \E i \in Sessions : settled_transactions_between_send(i)
    \/ \E i \in Sessions : settled_transactions_between_await(i)
    \/ do_update_merge

\* one run of the program, short enough for the clock to read the same
\* throughout
NextSteady ==
    \/ Start
    \/ \E i \in Sessions : settled_transactions_between_send(i) /\ now' = now
    \/ \E i \in Sessions : settled_transactions_between_await(i)
    \/ do_update_merge

Spec == Init /\ [][NextSteady]_vars

\* one run of the program over a single session, the clock advancing
NextClock ==
    \/ Start /\ Len(accounts') <= 1
    \/ \E i \in Sessions : settled_transactions_between_send(i)
    \/ \E i \in Sessions : settled_transactions_between_await(i)
    \/ do_update_merge

SpecClock == Init /\ [][NextClock]_vars

\* several runs of the program over one Store, each over a positive window;
\* the provider holds settled payments of the last day
NextRepeat ==
    \/ Start /\ days' > 0
    \/ Restart /\ days' > 0
    \/ \E i \in Sessions : settled_transactions_between_send(i) /\ now' = now
    \/ \E i \in Sessions : settled_transactions_between_await(i)
    \/ do_update_merge
    \/ Exit

InitRepeat ==
    /\ Init
    /\ \A a \in AccountIds : \A x \in ledger[a] :
          x.direction = "Out" /\ x.status = "Settled" /\ x.time >= DayTicks

SpecRepeat == InitRepeat /\ [][NextRepeat]_vars

\* the sessions are resolved, one per API key
NextResolve ==
    \/ \E k \in 1..MaxKeys : get_account_details_send(k)
    \/ \E k \in 1..MaxKeys : ProviderAccounts(k)
    \/ \E k \in 1..MaxKeys : StarlingAccount_new(k)

InitResolve ==
    /\ Init
    /\ \A a \in AccountIds : ledger[a] = {}

SpecResolve == InitResolve /\ [][NextResolve]_vars

\* one run under the scheduling the executor guarantees: a future that can
\* make progress is polled, and do_update goes on once join_all resolves.
\* Nothing obliges the provider to answer.
InitFair ==
    /\ Init
    /\ ledger = [a \in AccountIds |-> {Transaction(DayTicks + 1, <<1>>, Settled)}]

SpecFair ==
    /\ InitFair
    /\ [][Next]_vars
    /\ WF_vars(\E i \in Sessions : settled_transactions_between_send(i))
    /\ WF_vars(do_update_merge)

(***************************************************************************)
(* The total order #[derive(Ord)] gives Transaction, stated as a relation:  *)
(* by timestamp, then uid, counterparty, direction, amount, reference and  *)
(* status, each compared only when all the fields before it are equal.     *)
(***************************************************************************)
StrBefore(s, t) ==
    \/ Len(s) < Len(t) /\ SubSeq(t, 1, Len(s)) = s
    \/ \E n \in 1..Len(s) :
          /\ n <= Len(t)
          /\ SubSeq(s, 1, n - 1) = SubSeq(t, 1, n - 1)
          /\ s[n] < t[n]

DirectionsInOrder == <<"In", "Out">>
CurrenciesInOrder == <<"GBP", "USD", "EUR">>
StatusesInOrder == <<"Upcoming", "Pending", "Settled", "AccountCheck">>
PlaceIn(order_, v) == CHOOSE n \in 1..Len(order_) : order_[n] = v

FieldBefore(n, a, b) ==
    CASE n = 1 -> a.time < b.time
      [] n = 2 -> StrBefore(a.uid, b.uid)
      [] n = 3 -> StrBefore(a.counterparty_name, b.counterparty_name)
      [] n = 4 -> PlaceIn(DirectionsInOrder, a.direction)
                    < PlaceIn(DirectionsInOrder, b.direction)
      [] n = 5 -> a.sourceAmount.pennies < b.sourceAmount.pennies
      [] n = 6 -> PlaceIn(CurrenciesInOrder, a.sourceAmount.currency)
                    < PlaceIn(CurrenciesInOrder, b.sourceAmount.currency)
      [] n = 7 -> StrBefore(a.reference, b.reference)
      [] n = 8 -> PlaceIn(StatusesInOrder, a.status)
                    < PlaceIn(StatusesInOrder, b.status)

FieldOf(n, a) ==
    CASE n = 1 -> <<"time", a.time>>
      [] n = 2 -> <<"uid", a.uid>>
      [] n = 3 -> <<"counterparty", a.counterparty_name>>
      [] n = 4 -> <<"direction", a.direction>>
      [] n = 5 -> <<"pennies", a.sourceAmount.pennies>>
      [] n = 6 -> <<"currency", a.sourceAmount.currency>>
      [] n = 7 -> <<"reference", a.reference>>
      [] n = 8 -> <<"status", a.status>>

TxBefore(a, b) ==
    \E n \in 1..8 :
        /\ \A m \in 1..(n - 1) : FieldOf(m, a) = FieldOf(m, b)
        /\ FieldBefore(n, a, b)

Ascending(s) ==
    \A i \in 1..(Len(s) - 1) : s[i] = s[i + 1] \/ TxBefore(s[i], s[i + 1])

Count(x, s) == Cardinality({i \in 1..Len(s) : s[i] = x})
Ended == pc \in {"done", "panicked"}
Failed(i) == panic.account = i
Succeeded(i) == fut[i] = "done"

(***************************************************************************)
(* C1. The sequence do_update displays and hands to the Store is sorted    *)
(* ascending by the Transaction total order: no adjacent pair is out of    *)
(* order, by timestamp first and by the remaining fields on a tie.         *)
(***************************************************************************)
C1_SortedOutput == Ascending(displayed) /\ Ascending(handed)

\* a run that ended with two transactions of one timestamp handed over,
\* which the fetches had returned in the other order
C1_Witness ==
    /\ pc = "done"
    /\ \E i \in 1..(Len(handed) - 1) :
          handed[i].time = handed[i + 1].time /\ handed[i] # handed[i + 1]
    /\ ~Ascending(Flatten(results))
    /\ displayed = handed

(***************************************************************************)
(* C2. The output of a sync cycle is determined by the transactions the    *)
(* accounts returned, whatever the order the fetches completed in: it is   *)
(* the one ascending arrangement of exactly the transactions returned      *)
(* (each as often as it was returned).                                     *)
(***************************************************************************)
C2_OrderIndependent ==
    pc = "done" =>
        /\ Ascending(handed)
        /\ \A x \in TxUniverse : Count(x, handed) = Count(x, Flatten(results))
        /\ displayed = handed

\* the second session's fetch completed before the first's, and the
\* completion order differs from the output order
C2_Witness ==
    /\ pc = "done"
    /\ order = <<2, 1>>
    /\ results[1] # <<>>
    /\ results[2] # <<>>
    /\ handed # results[2] \o results[1]
    /\ handed # results[1] \o results[2]

(***************************************************************************)
(* C3. Partial failure isolation: when one account's fetch fails and       *)
(* another's succeeds, the cycle still completes, the successful           *)
(* account's transactions are in its result and in the Store, and the      *)
(* cycle as a whole does not abort.                                        *)
(***************************************************************************)
C3_PartialFailureIsolated ==
    \A i, j \in Sessions :
        (Ended /\ Failed(i) /\ Succeeded(j)) =>
            /\ pc = "done"
            /\ Range(results[j]) \subseteq Range(handed)
            /\ UidsOf(Range(results[j])) \subseteq UidsOf(Range(store))

(***************************************************************************)
(* C4. Total failure escalation: when the fetch of every configured        *)
(* account has failed, the cycle ends by reporting the aggregate           *)
(* AllAccountsFailed condition (it does not abort on a failure), and it    *)
(* returns no transactions.                                                *)
(***************************************************************************)
C4_AllAccountsFailed ==
    (Ended /\ Sessions # {} /\ \A i \in Sessions : Failed(i)) =>
        /\ pc = "all_accounts_failed"
        /\ handed = <<>>

C7_DistinctErrors ==
    \A k1, k2 \in 1..MaxKeys :
        (/\ session[k1] # Unresolved
         /\ session[k2] # Unresolved
         /\ lookup[k1].kind = "response" /\ lookup[k1].status = FORBIDDEN
         /\ \/ lookup[k2].kind = "transport_error"
            \/ lookup[k2].kind = "response" /\ lookup[k2].status \in OtherStatuses)
        => session[k1] # session[k2]

(***************************************************************************)
(* C8. Bounded fetch: a sync cycle that has started eventually ends, also  *)
(* when an account's provider never answers.                               *)
(***************************************************************************)
C8_BoundedFetch == (pc = "fetching") ~> (pc # "fetching")

(***************************************************************************)
(* C9. Join before merge, single write: nothing is displayed or written    *)
(* to the Store while a fetch of the cycle is in flight, and in every      *)
(* cycle that has ended the Store was updated exactly once.                *)
(***************************************************************************)
C9_SingleWriteAfterJoin ==
    /\ (storeWrites > 0 \/ displayed # <<>>) =>
          \A i \in Sessions : fut[i] = "done"
    /\ Ended => storeWrites = 1

(***************************************************************************)
(* C10. The sequence do_update displays and hands to the Store holds no    *)
(* two entries with the same transaction identifier.                       *)
(***************************************************************************)
C10_Deduplicated ==
    /\ \A i, j \in 1..Len(handed) : i # j => handed[i].uid # handed[j].uid
    /\ \A i, j \in 1..Len(displayed) :
          i # j => displayed[i].uid # displayed[j].uid

====
